---- MODULE Spec2Model ----
(***************************************************************************)
(* Model of Mission Control/competition_tasks/src/bouyTask.py: the smach   *)
(* state classes (StartState, TrackObjectState, ChangeDepthState,          *)
(* RotateYawState, ResetState), the ROS callbacks that write their fields, *)
(* and the transition table wired in main().                               *)
(*                                                                         *)
(* Units: pixels, pixels^2, inches are integers; yaw is in milliradians    *)
(* (YAW_INCREASE = 0.017 rad = 17); the area thresholds 0.85 and 0.90 are  *)
(* kept as percentages and compared by cross multiplication.               *)
(*                                                                         *)
(* Line 96 of the source reads `elif` with no condition; it is modelled as *)
(* the `else` branch of the if at line 93, the only branch it can be.      *)
(***************************************************************************)
EXTENDS Integers, Sequences, FiniteSets, TLC

VARIABLES active, torpedo_task_enabled, trk, cd, ry, mf, pubs, last, pc

vars == <<active, torpedo_task_enabled, trk, cd, ry, mf, pubs, last, pc>>

(* ---------------- module constants, lines 9-19 ---------------- *)
CAMERA_WIDTH == 400
CAMERA_HEIGHT == 300
CENTER_PADDING_X == 5
CENTER_PADDING_Y == 5
YAW_INCREASE == 17
DEPTH_STEP == 1
FORWARD_THRUST_INCREASE == 1
AREA_THRESHOLD_LOW == 85
AREA_THRESHOLD_HIGH == 90
MAX_FORWARD_THRUST == 280

(* ---------------- mission configuration, lines 282-295 ---------------- *)
TOUCH_FLAT_TIMER == 1000
MOVE_BACK_1_TIMER == 700
MOVE_FORWARD_TIMER == 2000
TOUCH_TRIANGLE_TIMER == 1000
MOVE_BACK_2_TIMER == 1400
BOUY_ABOVE_DEPTH == 3 * 12
BOUY_CENTER_DEPTH == 6 * 12
TORPEDO_BOARD_CENTER_DEPTH == 5 * 12
DEPTH_VARIANCE == 1
YAW_BOUY_BACK == -1590
YAW_TORPEDO_TASK == 500
YAW_VARIANCE == 100

(* ---------------- registered states, lines 297-325 ---------------- *)
TrackNames == {"TRACK_FLAT", "TRACK_TRIANGLE"}
DepthNames == {"MOVE_UP", "MOVE_DOWN", "MOVE_TORPEDO_DEPTH"}
YawNames == {"TURN_AROUND", "FACE_TORPEDO_TASK"}
MoveNames == {"TOUCH_FLAT", "MOVE_BACK_1", "MOVE_FORWARD", "TOUCH_TRIANGLE", "MOVE_BACK_2"}
States == {"START", "RESET"} \cup TrackNames \cup DepthNames \cup YawNames \cup MoveNames

\* the transition table exactly as written in main()
Transitions ==
  [START |-> [ready |-> "TRACK_FLAT", notready |-> "START"],
   TRACK_FLAT |-> [done |-> "TOUCH_FLAT", notdone |-> "TRACK_FLAT", reset |-> "RESET"],
   TOUCH_FLAT |-> [done |-> "MOVE_BACK_1", notdone |-> "TOUCH_FLAT", reset |-> "RESET"],
   MOVE_BACK_1 |-> [done |-> "MOVE_UP", notdone |-> "MOVE_BACK_1", reset |-> "RESET"],
   MOVE_UP |-> [done |-> "MOVE_FORWARD", notdone |-> "MOVE_UP", reset |-> "RESET"],
   MOVE_FORWARD |-> [done |-> "MOVE_DOWN", notdone |-> "MOVE_FORWARD", reset |-> "RESET"],
   MOVE_DOWN |-> [done |-> "TURN_AROUND", notdone |-> "MOVE_DOWN", reset |-> "RESET"],
   TURN_AROUND |-> [done |-> "TRACK_TRIANGLE", notdone |-> "TURN_AROUND", reset |-> "RESET"],
   TRACK_TRIANGLE |-> [done |-> "TOUCH_TRIANGLE", notdone |-> "TRACK_TRIANGLE", reset |-> "RESET"],
   TOUCH_TRIANGLE |-> [done |-> "MOVE_BACK_2", notdone |-> "TOUCH_TRIANGLE", reset |-> "RESET"],
   MOVE_BACK_2 |-> [done |-> "FACE_TORPEDO_TASK", notdone |-> "MOVE_BACK_2", reset |-> "RESET"],
   FACE_TORPEDO_TASK |-> [done |-> "MOVE_TORPEDO_DEPTH", notdone |-> "FACE_TORPEDO_TASK", reset |-> "RESET"],
   MOVE_TORPEDO_DEPTH |-> [done |-> "START", notdone |-> "MOVE_TORPEDO_DEPTH", reset |-> "RESET"],
   RESET |-> [restart |-> "START", stay |-> "RESET"]]

\* outcomes each class registers with smach.State.__init__
Outcomes(st) ==
  IF st = "START" THEN {"ready", "notready"}
  ELSE IF st \in TrackNames THEN {"completed", "notcompleted", "reset"}
  ELSE IF st = "RESET" THEN {"restart", "stay"}
  ELSE {"done", "notdone", "reset"}

\* constructor arguments given in main()
yoffset(n) == 0

targetDepth(n) ==
  IF n = "MOVE_UP" THEN BOUY_ABOVE_DEPTH
  ELSE IF n = "MOVE_DOWN" THEN BOUY_CENTER_DEPTH
  ELSE TORPEDO_BOARD_CENTER_DEPTH

targetYaw(n) == IF n = "TURN_AROUND" THEN YAW_BOUY_BACK ELSE YAW_TORPEDO_TASK

duration(n) ==
  IF n = "TOUCH_FLAT" THEN TOUCH_FLAT_TIMER
  ELSE IF n = "MOVE_BACK_1" THEN MOVE_BACK_1_TIMER
  ELSE IF n = "MOVE_FORWARD" THEN MOVE_FORWARD_TIMER
  ELSE IF n = "TOUCH_TRIANGLE" THEN TOUCH_TRIANGLE_TIMER
  ELSE MOVE_BACK_2_TIMER

forward(n) == n \in {"TOUCH_FLAT", "MOVE_FORWARD", "TOUCH_TRIANGLE"}

(* ---------------- bounds of the model ---------------- *)
\* a maneuver state is stepped at most this many ticks from a fresh timer
MaxManeuverTicks == 1

\* message payloads: below, on the edge of, and above each band the code tests
XVals == {0, 195, 200, 205, 206}
YVals == {0, 145, 155, 156}
AreaVals == {0, 102000, 104400, 108000, 108001}
YawVals == {0, -1590}
DepthVals == {0, 37, 38}

\* the states taken as the active one at the start. TRACK_TRIANGLE is the
\* same class with the same arguments as TRACK_FLAT and no step activates it
\* (TriangleNeverActive), so the object fields of its instance are never read
\* and the detections of the triangle buoy are not delivered.
Entered == States \ {"TRACK_TRIANGLE"}
Detected == TrackNames \cap Entered

(* ---------------- StartState ---------------- *)
\* mutant: the flag is left as it was
StartExecute_keep(enabled) ==
  IF enabled THEN [enabled |-> enabled, outcome |-> "ready"]
  ELSE [enabled |-> enabled, outcome |-> "notready"]

StartExecute(enabled) ==
  IF enabled THEN [enabled |-> FALSE, outcome |-> "ready"]
  ELSE [enabled |-> enabled, outcome |-> "notready"]

(* ---------------- TrackObjectState ---------------- *)
TrackInit ==
  [object_x |-> 0, object_y |-> 0, object_area |-> 0, yaw_current |-> 0,
   depth_current |-> 0, forward_thrust |-> 0, has_reset |-> FALSE, timer |-> 0]

\* mutant: the tick counter survives resetValues
resetValues_keep_timer(s) ==
  [s EXCEPT !.object_x = 0, !.object_y = 0, !.object_area = 0, !.yaw_current = 0,
            !.depth_current = 0, !.forward_thrust = 0, !.has_reset = FALSE]

resetValues(s) ==
  [s EXCEPT !.object_x = 0, !.object_y = 0, !.object_area = 0, !.yaw_current = 0,
            !.depth_current = 0, !.forward_thrust = 0, !.has_reset = FALSE, !.timer = 0]

\* mutant: the lower edge of the band counts as off-centre
adjust_yaw_edge(s) ==
  IF s.object_x > CAMERA_WIDTH \div 2 + CENTER_PADDING_X
    THEN [centered |-> FALSE, yaw |-> <<s.yaw_current - YAW_INCREASE>>]
  ELSE IF s.object_x <= CAMERA_WIDTH \div 2 - CENTER_PADDING_X
    THEN [centered |-> FALSE, yaw |-> <<s.yaw_current + YAW_INCREASE>>]
  ELSE [centered |-> TRUE, yaw |-> <<>>]

adjust_yaw(s) ==
  IF s.object_x > CAMERA_WIDTH \div 2 + CENTER_PADDING_X
    THEN [centered |-> FALSE, yaw |-> <<s.yaw_current - YAW_INCREASE>>]
  ELSE IF s.object_x < CAMERA_WIDTH \div 2 - CENTER_PADDING_X
    THEN [centered |-> FALSE, yaw |-> <<s.yaw_current + YAW_INCREASE>>]
  ELSE [centered |-> TRUE, yaw |-> <<>>]

adjust_depth(s, yoff) ==
  IF s.object_y > CAMERA_HEIGHT \div 2 + yoff + CENTER_PADDING_Y
    THEN [centered |-> FALSE, depth |-> <<s.depth_current + DEPTH_STEP>>]
  ELSE IF s.object_y < CAMERA_HEIGHT \div 2 + yoff - CENTER_PADDING_Y
    THEN [centered |-> FALSE, depth |-> <<s.depth_current - DEPTH_STEP>>]
  ELSE [centered |-> TRUE, depth |-> <<>>]

\* mutant: the upper limit is not enforced
clamp_no_upper(t) ==
  IF t < -MAX_FORWARD_THRUST THEN -MAX_FORWARD_THRUST ELSE t

clamp(t) ==
  IF t > MAX_FORWARD_THRUST THEN MAX_FORWARD_THRUST
  ELSE IF t < -MAX_FORWARD_THRUST THEN -MAX_FORWARD_THRUST
  ELSE t

\* mutant: the change is applied on every tick
change_forward_thrust_ungated(s, amount) ==
  LET t == clamp(s.forward_thrust + amount)
  IN [s |-> [s EXCEPT !.forward_thrust = t], thrust |-> <<t>>]

change_forward_thrust(s, amount) ==
  IF s.timer % 200 # 0
    THEN [s |-> s, thrust |-> <<>>]
    ELSE LET t == clamp(s.forward_thrust + amount)
         IN [s |-> [s EXCEPT !.forward_thrust = t], thrust |-> <<t>>]

\* mutant: a ratio of exactly 0.85 counts as too small
adjust_position_edge(s) ==
  IF s.object_area * 100 <= AREA_THRESHOLD_LOW * (CAMERA_WIDTH * CAMERA_HEIGHT)
    THEN LET c == change_forward_thrust(s, FORWARD_THRUST_INCREASE)
         IN [centered |-> FALSE, s |-> c.s, thrust |-> c.thrust, req |-> <<FORWARD_THRUST_INCREASE>>]
  ELSE IF s.object_area * 100 > AREA_THRESHOLD_HIGH * (CAMERA_WIDTH * CAMERA_HEIGHT)
    THEN LET c == change_forward_thrust(s, -FORWARD_THRUST_INCREASE)
         IN [centered |-> FALSE, s |-> c.s, thrust |-> c.thrust, req |-> <<-FORWARD_THRUST_INCREASE>>]
  ELSE [centered |-> TRUE, s |-> s, thrust |-> <<>>, req |-> <<>>]

\* mutant: the two directions are exchanged
adjust_position_swapped(s) ==
  IF s.object_area * 100 < AREA_THRESHOLD_LOW * (CAMERA_WIDTH * CAMERA_HEIGHT)
    THEN LET c == change_forward_thrust(s, -FORWARD_THRUST_INCREASE)
         IN [centered |-> FALSE, s |-> c.s, thrust |-> c.thrust, req |-> <<-FORWARD_THRUST_INCREASE>>]
  ELSE IF s.object_area * 100 > AREA_THRESHOLD_HIGH * (CAMERA_WIDTH * CAMERA_HEIGHT)
    THEN LET c == change_forward_thrust(s, FORWARD_THRUST_INCREASE)
         IN [centered |-> FALSE, s |-> c.s, thrust |-> c.thrust, req |-> <<FORWARD_THRUST_INCREASE>>]
  ELSE [centered |-> TRUE, s |-> s, thrust |-> <<>>, req |-> <<>>]

adjust_position(s) ==
  IF s.object_area * 100 < AREA_THRESHOLD_LOW * (CAMERA_WIDTH * CAMERA_HEIGHT)
    THEN LET c == change_forward_thrust(s, FORWARD_THRUST_INCREASE)
         IN [centered |-> FALSE, s |-> c.s, thrust |-> c.thrust, req |-> <<FORWARD_THRUST_INCREASE>>]
  ELSE IF s.object_area * 100 > AREA_THRESHOLD_HIGH * (CAMERA_WIDTH * CAMERA_HEIGHT)
    THEN LET c == change_forward_thrust(s, -FORWARD_THRUST_INCREASE)
         IN [centered |-> FALSE, s |-> c.s, thrust |-> c.thrust, req |-> <<-FORWARD_THRUST_INCREASE>>]
  ELSE [centered |-> TRUE, s |-> s, thrust |-> <<>>, req |-> <<>>]

\* lines 85-97 of execute: what follows the reset check
TrackEvaluate(s, yoff) ==
  LET ay == adjust_yaw(s)
      ad == adjust_depth(s, yoff)
      ap == IF ay.centered /\ ad.centered
              THEN adjust_position(s)
              ELSE [centered |-> FALSE, s |-> s, thrust |-> <<>>, req |-> <<>>]
  IN IF ay.centered /\ ad.centered /\ ap.centered
       THEN [s |-> resetValues(ap.s), outcome |-> "completed",
             yaw |-> ay.yaw, depth |-> ad.depth, thrust |-> ap.thrust, req |-> ap.req]
       ELSE [s |-> ap.s, outcome |-> "notcompleted",
             yaw |-> ay.yaw, depth |-> ad.depth, thrust |-> ap.thrust, req |-> ap.req]

TrackExecute(s0, yoff) ==
  LET s == [s0 EXCEPT !.timer = s0.timer + 1] IN
  IF s.has_reset
    THEN [s |-> resetValues(s), outcome |-> "reset",
          yaw |-> <<>>, depth |-> <<>>, thrust |-> <<>>, req |-> <<>>]
    ELSE TrackEvaluate(s, yoff)

(* ---------------- ChangeDepthState ---------------- *)
DepthInit == [depth_current |-> 0, has_reset |-> FALSE]

\* change_depth reads self.depth, an attribute no method of the class assigns
change_depth(s, amount) ==
  IF "depth" \in DOMAIN s
    THEN [raised |-> FALSE, depth |-> <<s.depth + amount>>]
    ELSE [raised |-> TRUE, depth |-> <<>>]

\* mutant: the reset flag is not looked at
ChangeDepthExecute_no_reset(s, target, threshold) ==
  IF s.depth_current > target + threshold
    THEN LET c == change_depth(s, DEPTH_STEP)
         IN [outcome |-> IF c.raised THEN "AttributeError" ELSE "notdone", depth |-> c.depth]
  ELSE IF s.depth_current < target - threshold
    THEN LET c == change_depth(s, -DEPTH_STEP)
         IN [outcome |-> IF c.raised THEN "AttributeError" ELSE "notdone", depth |-> c.depth]
  ELSE [outcome |-> "done", depth |-> <<>>]

ChangeDepthExecute(s, target, threshold) ==
  IF s.has_reset
    THEN [outcome |-> "reset", depth |-> <<>>]
  ELSE IF s.depth_current > target + threshold
    THEN LET c == change_depth(s, DEPTH_STEP)
         IN [outcome |-> IF c.raised THEN "AttributeError" ELSE "notdone", depth |-> c.depth]
  ELSE IF s.depth_current < target - threshold
    THEN LET c == change_depth(s, -DEPTH_STEP)
         IN [outcome |-> IF c.raised THEN "AttributeError" ELSE "notdone", depth |-> c.depth]
  ELSE [outcome |-> "done", depth |-> <<>>]

(* ---------------- RotateYawState ---------------- *)
YawInit == [yaw_current |-> 0, has_reset |-> FALSE]

\* mutant: the predicate compares the reading with the target
isYawOnTarget_compare(s, target, variance) ==
  /\ s.yaw_current - target <= variance
  /\ target - s.yaw_current <= variance

isYawOnTarget(s, target, variance) == FALSE

yawResetValues(s) == [s EXCEPT !.yaw_current = 0, !.has_reset = FALSE]

RotateYawExecute(s, target, variance) ==
  IF s.has_reset
    THEN [s |-> yawResetValues(s), outcome |-> "reset", yaw |-> <<>>]
  ELSE IF isYawOnTarget(s, target, variance)
    THEN [s |-> yawResetValues(s), outcome |-> "done", yaw |-> <<>>]
  ELSE [s |-> s, outcome |-> "notdone", yaw |-> <<>>]

(* ---------------- MoveForwardState (not defined in the source) ---------------- *)
MoveInit == [timer |-> 0, has_reset |-> FALSE]

MoveForwardExecute(s, ticks, fwd) ==
  IF s.has_reset
    THEN [s |-> MoveInit, outcome |-> "reset", maneuver |-> <<>>]
  ELSE IF s.timer + 1 >= ticks
    THEN [s |-> MoveInit, outcome |-> "done", maneuver |-> <<fwd>>]
  ELSE [s |-> [s EXCEPT !.timer = s.timer + 1], outcome |-> "notdone", maneuver |-> <<fwd>>]

(* ---------------- engine ---------------- *)
NoPubs == [yaw |-> <<>>, depth |-> <<>>, thrust |-> <<>>, maneuver |-> <<>>]
NoStep == [state |-> "none", outcome |-> "none", req |-> <<>>]

\* mutant: a reset outcome leads straight back to START
Lookup_restart(st, outcome) ==
  IF outcome = "reset" THEN "START"
  ELSE IF outcome \in DOMAIN Transitions[st] THEN Transitions[st][outcome] ELSE "ABORTED"

\* an outcome without an entry, or an exception, ends sm.execute()
Lookup(st, outcome) ==
  IF outcome \in DOMAIN Transitions[st] THEN Transitions[st][outcome] ELSE "ABORTED"

Running == active \in States

(* ---------------- callbacks, one action per topic ---------------- *)
task_enable_callback ==
  /\ Running
  /\ \E b \in BOOLEAN : torpedo_task_enabled' = b
  /\ pubs' = NoPubs /\ last' = NoStep
  /\ UNCHANGED <<pc, active, trk, cd, ry, mf>>

object_x_callback ==
  /\ Running
  /\ \E n \in Detected, v \in XVals : trk' = [trk EXCEPT ![n].object_x = v]
  /\ pubs' = NoPubs /\ last' = NoStep
  /\ UNCHANGED <<pc, active, torpedo_task_enabled, cd, ry, mf>>

object_y_callback ==
  /\ Running
  /\ \E n \in Detected, v \in YVals : trk' = [trk EXCEPT ![n].object_y = v]
  /\ pubs' = NoPubs /\ last' = NoStep
  /\ UNCHANGED <<pc, active, torpedo_task_enabled, cd, ry, mf>>

object_area_callback ==
  /\ Running
  /\ \E n \in Detected, v \in AreaVals : trk' = [trk EXCEPT ![n].object_area = v]
  /\ pubs' = NoPubs /\ last' = NoStep
  /\ UNCHANGED <<pc, active, torpedo_task_enabled, cd, ry, mf>>

\* /yaw_control/state has four subscribers
yaw_callback ==
  /\ Running
  /\ \E v \in YawVals :
       /\ trk' = [n \in TrackNames |-> [trk[n] EXCEPT !.yaw_current = v]]
       /\ ry' = [n \in YawNames |-> [ry[n] EXCEPT !.yaw_current = v]]
  /\ pubs' = NoPubs /\ last' = NoStep
  /\ UNCHANGED <<pc, active, torpedo_task_enabled, cd, mf>>

\* /depth_control/state has five subscribers
depth_callback ==
  /\ Running
  /\ \E v \in DepthVals :
       /\ trk' = [n \in TrackNames |-> [trk[n] EXCEPT !.depth_current = v]]
       /\ cd' = [n \in DepthNames |-> [cd[n] EXCEPT !.depth_current = v]]
  /\ pubs' = NoPubs /\ last' = NoStep
  /\ UNCHANGED <<pc, active, torpedo_task_enabled, ry, mf>>

\* /reset is subscribed by every state but START and RESET
reset_callback ==
  /\ Running
  /\ \E b \in BOOLEAN :
       /\ trk' = [n \in TrackNames |-> [trk[n] EXCEPT !.has_reset = b]]
       /\ cd' = [n \in DepthNames |-> [cd[n] EXCEPT !.has_reset = b]]
       /\ ry' = [n \in YawNames |-> [ry[n] EXCEPT !.has_reset = b]]
       /\ mf' = [n \in MoveNames |-> [mf[n] EXCEPT !.has_reset = b]]
  /\ pubs' = NoPubs /\ last' = NoStep
  /\ UNCHANGED <<pc, active, torpedo_task_enabled>>

(* ---------------- one tick of the engine per state class ---------------- *)
StartStep ==
  /\ active = "START"
  /\ LET r == StartExecute(torpedo_task_enabled) IN
       /\ torpedo_task_enabled' = r.enabled
       /\ last' = [state |-> active, outcome |-> r.outcome, req |-> <<>>]
       /\ active' = Lookup(active, r.outcome)
  /\ pubs' = NoPubs
  /\ UNCHANGED <<pc, trk, cd, ry, mf>>

TrackStep ==
  /\ active \in TrackNames
  /\ LET r == TrackExecute(trk[active], yoffset(active)) IN
       /\ trk' = [trk EXCEPT ![active] = r.s]
       /\ pubs' = [yaw |-> r.yaw, depth |-> r.depth, thrust |-> r.thrust, maneuver |-> <<>>]
       /\ last' = [state |-> active, outcome |-> r.outcome, req |-> r.req]
       /\ active' = Lookup(active, r.outcome)
  /\ UNCHANGED <<pc, torpedo_task_enabled, cd, ry, mf>>

ChangeDepthStep ==
  /\ active \in DepthNames
  /\ LET r == ChangeDepthExecute(cd[active], targetDepth(active), DEPTH_VARIANCE) IN
       /\ pubs' = [NoPubs EXCEPT !.depth = r.depth]
       /\ last' = [state |-> active, outcome |-> r.outcome, req |-> <<>>]
       /\ active' = Lookup(active, r.outcome)
  /\ UNCHANGED <<pc, torpedo_task_enabled, trk, cd, ry, mf>>

RotateYawStep ==
  /\ active \in YawNames
  /\ LET r == RotateYawExecute(ry[active], targetYaw(active), YAW_VARIANCE) IN
       /\ ry' = [ry EXCEPT ![active] = r.s]
       /\ pubs' = [NoPubs EXCEPT !.yaw = r.yaw]
       /\ last' = [state |-> active, outcome |-> r.outcome, req |-> <<>>]
       /\ active' = Lookup(active, r.outcome)
  /\ UNCHANGED <<pc, torpedo_task_enabled, trk, cd, mf>>

MoveForwardStep ==
  /\ active \in MoveNames
  /\ \/ mf[active].has_reset
     \/ mf[active].timer < MaxManeuverTicks
     \/ mf[active].timer + 1 >= duration(active)
  /\ LET r == MoveForwardExecute(mf[active], duration(active), forward(active)) IN
       /\ mf' = [mf EXCEPT ![active] = r.s]
       /\ pubs' = [NoPubs EXCEPT !.maneuver = r.maneuver]
       /\ last' = [state |-> active, outcome |-> r.outcome, req |-> <<>>]
       /\ active' = Lookup(active, r.outcome)
  /\ UNCHANGED <<pc, torpedo_task_enabled, trk, cd, ry>>

\* a TrackObject step in two parts, for callbacks that run on their own
\* threads while execute runs: lines 80-83, then lines 85-97
TrackBegin ==
  /\ active \in TrackNames
  /\ pc = "idle"
  /\ LET s == [trk[active] EXCEPT !.timer = trk[active].timer + 1] IN
       IF s.has_reset
         THEN /\ trk' = [trk EXCEPT ![active] = resetValues(s)]
              /\ last' = [state |-> active, outcome |-> "reset", req |-> <<>>]
              /\ active' = Lookup(active, "reset")
              /\ pc' = "idle"
         ELSE /\ trk' = [trk EXCEPT ![active] = s]
              /\ last' = NoStep
              /\ active' = active
              /\ pc' = "checked"
  /\ pubs' = NoPubs
  /\ UNCHANGED <<torpedo_task_enabled, cd, ry, mf>>

TrackFinish ==
  /\ active \in TrackNames
  /\ pc = "checked"
  /\ LET r == TrackEvaluate(trk[active], yoffset(active)) IN
       /\ trk' = [trk EXCEPT ![active] = r.s]
       /\ pubs' = [yaw |-> r.yaw, depth |-> r.depth, thrust |-> r.thrust, maneuver |-> <<>>]
       /\ last' = [state |-> active, outcome |-> r.outcome, req |-> r.req]
       /\ active' = Lookup(active, r.outcome)
  /\ pc' = "idle"
  /\ UNCHANGED <<torpedo_task_enabled, cd, ry, mf>>

ResetExecute == "restart"

ResetStep ==
  /\ active = "RESET"
  /\ last' = [state |-> active, outcome |-> ResetExecute, req |-> <<>>]
  /\ active' = Lookup(active, ResetExecute)
  /\ pubs' = NoPubs
  /\ UNCHANGED <<pc, torpedo_task_enabled, trk, cd, ry, mf>>

(* ---------------- specifications ---------------- *)
\* (timer, forward_thrust) pairs a TrackObjectState instance holds between
\* two execute calls: |forward_thrust| changes by at most one every 200 ticks
TrackResume ==
  {<<0, 0>>, <<199, 0>>, <<200, 1>>, <<55999, 279>>, <<56199, 280>>, <<56199, -280>>}

\* the mission as main() starts it
InitMission ==
  /\ active = "START"
  /\ torpedo_task_enabled = FALSE
  /\ trk = [n \in TrackNames |-> TrackInit]
  /\ cd = [n \in DepthNames |-> DepthInit]
  /\ ry = [n \in YawNames |-> YawInit]
  /\ mf = [n \in MoveNames |-> MoveInit]
  /\ pubs = NoPubs
  /\ last = NoStep
  /\ pc = "idle"

\* every registered state taken as the active one, its instance at a point
\* its own execute calls lead to
Init ==
  /\ active \in Entered
  /\ torpedo_task_enabled = FALSE
  /\ \E r \in TrackResume :
       trk = [n \in TrackNames |->
                IF n = active THEN [TrackInit EXCEPT !.timer = r[1], !.forward_thrust = r[2]]
                ELSE TrackInit]
  /\ cd = [n \in DepthNames |-> DepthInit]
  /\ ry = [n \in YawNames |-> YawInit]
  /\ \E t \in {0, 1} :
       mf = [n \in MoveNames |->
               IF n = active /\ t = 1 THEN [MoveInit EXCEPT !.timer = duration(n) - 1]
               ELSE MoveInit]
  /\ pubs = NoPubs
  /\ last = NoStep
  /\ pc = "idle"

Next ==
  \/ task_enable_callback
  \/ object_x_callback
  \/ object_y_callback
  \/ object_area_callback
  \/ yaw_callback
  \/ depth_callback
  \/ reset_callback
  \/ StartStep
  \/ TrackStep
  \/ ChangeDepthStep
  \/ RotateYawStep
  \/ MoveForwardStep
  \/ ResetStep

Spec == Init /\ [][Next]_vars

TriangleNeverActive == active # "TRACK_TRIANGLE"

\* from START only START, TRACK_FLAT and RESET are ever stepped
NextMission ==
  \/ task_enable_callback
  \/ object_x_callback
  \/ object_y_callback
  \/ object_area_callback
  \/ yaw_callback
  \/ depth_callback
  \/ reset_callback
  \/ StartStep
  \/ TrackStep
  \/ ResetStep

SpecMission == InitMission /\ [][NextMission]_vars

\* the mission with the TrackObject step interleaved with the callbacks
NextRace ==
  \/ task_enable_callback
  \/ object_x_callback
  \/ object_y_callback
  \/ object_area_callback
  \/ yaw_callback
  \/ depth_callback
  \/ reset_callback
  \/ StartStep
  \/ TrackBegin
  \/ TrackFinish
  \/ ResetStep

SpecRace == InitMission /\ [][NextRace]_vars

(* ---------------- properties ---------------- *)
HasReset(st) ==
  IF st \in TrackNames THEN trk[st].has_reset
  ELSE IF st \in DepthNames THEN cd[st].has_reset
  ELSE IF st \in YawNames THEN ry[st].has_reset
  ELSE FALSE

\* this transition is a step of the state that was active
Stepped == last'.state = active

\* C1: forward_thrust of every TrackObject instance and every command published
\* on the thrust topic lie in [-280, 280].
C1_ThrustInRange ==
  /\ \A n \in TrackNames : trk[n].forward_thrust \in -280..280
  /\ \A i \in 1..Len(pubs.thrust) : pubs.thrust[i] \in -280..280

\* an increase was requested at the limit on a tick that applies it
C1_Witness ==
  /\ last.state \in TrackNames
  /\ last.req = <<1>>
  /\ trk[last.state].timer = 56200
  /\ pubs.thrust = <<280>>

\* C2: for the active state, every outcome its class declares has an entry in
\* the transition table that names a registered state.
C2_TableTotal ==
  active \in States =>
    \A o \in Outcomes(active) :
      /\ o \in DOMAIN Transitions[active]
      /\ Transitions[active][o] \in States

\* C3: every step ends without an exception, with an outcome its class declares.
C3_StepTotal ==
  last.state \in States => last.outcome \in Outcomes(last.state)

\* C4: a TrackObject, ChangeDepth or RotateYaw step that begins with the reset
\* flag set returns reset, publishes nothing and activates RESET; a RESET step
\* returns restart and activates START.
C4_ResetRoutes ==
  [][/\ (active \in TrackNames \cup DepthNames \cup YawNames /\ HasReset(active) /\ Stepped)
          => (last'.outcome = "reset" /\ pubs' = NoPubs /\ active' = "RESET")
     /\ (active = "RESET" /\ Stepped)
          => (last'.outcome = "restart" /\ active' = "START")]_vars

C4_Witness ==
  /\ last.state \in DepthNames
  /\ last.outcome = "reset"
  /\ active = "RESET"

\* C5: with the reset flag clear a TrackObject step returns completed exactly
\* when x, y and the area ratio are all inside their bands, notcompleted
\* otherwise, and after completed every mutable field is zero or false.
C5_Completed ==
  [][(active \in TrackNames /\ ~HasReset(active) /\ Stepped) =>
       LET s == trk[active]
           all == /\ 195 <= s.object_x /\ s.object_x <= 205
                  /\ 145 <= s.object_y /\ s.object_y <= 155
                  /\ 102000 <= s.object_area /\ s.object_area <= 108000
       IN /\ last'.outcome = IF all THEN "completed" ELSE "notcompleted"
          /\ all => trk'[active] = TrackInit]_vars

\* a step has returned completed and left the instance zeroed
C5_Witness ==
  /\ last.state \in TrackNames
  /\ last.outcome = "completed"
  /\ trk[last.state] = TrackInit

\* C6 as stated: on a tick that is no multiple of 200 (and gets past the reset
\* check) forward_thrust is unchanged and no thrust command is published.
C6_Original ==
  [][(active \in TrackNames /\ ~HasReset(active) /\ Stepped
        /\ (trk[active].timer + 1) % 200 # 0) =>
       /\ trk'[active].forward_thrust = trk[active].forward_thrust
       /\ pubs'.thrust = <<>>]_vars

\* C6 amended: on a tick that is no multiple of 200 no thrust command is
\* published and forward_thrust is unchanged unless the step returns completed
\* or reset, which zero it; on a multiple of 200 a requested change is applied
\* and published.
C6_RateLimited ==
  [][(active \in TrackNames /\ Stepped) =>
       LET t == trk[active].timer + 1 IN
         /\ t % 200 # 0 =>
              /\ pubs'.thrust = <<>>
              /\ trk'[active].forward_thrust =
                    IF last'.outcome = "notcompleted" THEN trk[active].forward_thrust ELSE 0
         /\ (t % 200 = 0 /\ last'.req # <<>>) =>
              pubs'.thrust = <<trk'[active].forward_thrust>>]_vars

\* a change was requested on a tick that is no multiple of 200
C6_Witness ==
  /\ last.state \in TrackNames
  /\ last.req # <<>>
  /\ trk[last.state].timer % 200 # 0
  /\ pubs.thrust = <<>>

\* C7: a Start step returns ready exactly when the enable flag is set, clears
\* the flag and activates TRACK_FLAT; otherwise it returns notready and START
\* stays active.
C7_StartGate ==
  [][(active = "START" /\ Stepped) =>
       /\ last'.outcome = IF torpedo_task_enabled THEN "ready" ELSE "notready"
       /\ torpedo_task_enabled' = FALSE
       /\ active' = IF torpedo_task_enabled THEN "TRACK_FLAT" ELSE "START"]_vars

C7_Witness ==
  /\ last.state = "START"
  /\ last.outcome = "ready"
  /\ active = "TRACK_FLAT"
  /\ ~torpedo_task_enabled

\* C8: a RotateYaw step never returns done, whatever the yaw reading; the
\* state stays active or hands over to RESET.
C8_NeverDone ==
  last.state \in YawNames =>
    /\ last.outcome \in {"notdone", "reset"}
    /\ active = IF last.outcome = "reset" THEN "RESET" ELSE last.state

\* the yaw reading equals the target and the step still returns notdone
C8_Witness ==
  /\ last.state = "TURN_AROUND"
  /\ last.outcome = "notdone"
  /\ ry["TURN_AROUND"].yaw_current = YAW_BOUY_BACK

\* C9: with the reset flag clear, x > 205 publishes exactly yaw_current minus
\* one increment, x < 195 exactly yaw_current plus one increment, and an x in
\* [195, 205] publishes no yaw command; an off-centre x never completes.
C9_YawRule ==
  [][(active \in TrackNames /\ ~HasReset(active) /\ Stepped) =>
       LET s == trk[active] IN
         /\ pubs'.yaw = IF s.object_x > 205 THEN <<s.yaw_current - 17>>
                        ELSE IF s.object_x < 195 THEN <<s.yaw_current + 17>>
                        ELSE <<>>
         /\ (s.object_x > 205 \/ s.object_x < 195) => last'.outcome = "notcompleted"]_vars

C9_Witness ==
  /\ last.state \in TrackNames
  /\ trk[last.state].object_x = 206
  /\ trk[last.state].yaw_current = -1590
  /\ pubs.yaw = <<-1607>>

C11_DepthStep ==
  [][(active \in DepthNames /\ ~HasReset(active) /\ Stepped) =>
       LET d == cd[active].depth_current
           t == targetDepth(active)
       IN IF d > t + DEPTH_VARIANCE
            THEN pubs'.depth = <<d + DEPTH_STEP>> /\ last'.outcome = "notdone"
          ELSE IF d < t - DEPTH_VARIANCE
            THEN pubs'.depth = <<d - DEPTH_STEP>> /\ last'.outcome = "notdone"
          ELSE pubs'.depth = <<>> /\ last'.outcome = "done"]_vars

\* C12: from the initial state with enable = true the first tick returns
\* ready and activates TRACK_FLAT; with the flat buoy at x = 200, y = 155 and
\* an area ratio of 0.87 and no reset, the first TRACK_FLAT tick returns
\* completed, publishes no command and the engine advances to TOUCH_FLAT.
C12_EndToEnd ==
  [][/\ (active = "START" /\ Stepped /\ torpedo_task_enabled) =>
          last'.outcome = "ready" /\ active' = "TRACK_FLAT"
     /\ (/\ active = "TRACK_FLAT" /\ Stepped
         /\ trk[active].timer = 0
         /\ ~trk[active].has_reset
         /\ trk[active].object_x = 200
         /\ trk[active].object_y = 155
         /\ trk[active].object_area = 104400) =>
          /\ last'.outcome = "completed"
          /\ pubs' = NoPubs
          /\ active' = "TOUCH_FLAT"]_vars

\* C13: the engine never stops: one registered mission state is active in
\* every reachable state, so that a next tick is enabled, and no row of the
\* table leads to the container outcome torpedo_task_complete.
C13_NeverStops ==
  /\ Running
  /\ \A st \in States : \A o \in DOMAIN Transitions[st] :
       Transitions[st][o] # "torpedo_task_complete"

\* C14: a RotateYaw step that returns notdone publishes exactly one yaw
\* increment, in one direction or the other; a step that returns done or reset
\* publishes none and leaves yaw_current and has_reset zeroed.
C14_YawStep ==
  last.state \in YawNames =>
    /\ last.outcome = "notdone" =>
         pubs.yaw \in {<<YAW_INCREASE>>, <<-YAW_INCREASE>>}
    /\ last.outcome \in {"done", "reset"} =>
         pubs.yaw = <<>> /\ ry[last.state] = YawInit

\* the mission order and the outcome on which each state hands over
Order ==
  <<"START", "TRACK_FLAT", "TOUCH_FLAT", "MOVE_BACK_1", "MOVE_UP", "MOVE_FORWARD",
    "MOVE_DOWN", "TURN_AROUND", "TRACK_TRIANGLE", "TOUCH_TRIANGLE", "MOVE_BACK_2",
    "FACE_TORPEDO_TASK", "MOVE_TORPEDO_DEPTH", "START">>

Follows(a, b) == \E i \in 1..(Len(Order) - 1) : Order[i] = a /\ Order[i + 1] = b

Success(st) ==
  IF st = "START" THEN "ready"
  ELSE IF st \in TrackNames THEN "completed"
  ELSE "done"

\* C15: a state other than RESET becomes active only from itself or from its
\* immediate predecessor in the mission order, on the predecessor's success
\* outcome (START also from RESET on restart); RESET becomes active only on a
\* reset outcome.
C15_FixedOrder ==
  [][(active' \in States /\ active' # active) =>
       IF active' = "RESET" THEN last'.outcome = "reset"
       ELSE \/ Follows(active, active') /\ last'.outcome = Success(active)
            \/ active' = "START" /\ active = "RESET"]_vars

C15_Witness ==
  /\ active = "MOVE_FORWARD"
  /\ last.state = "MOVE_UP"
  /\ last.outcome = "done"

\* C16: a TrackObject step leaves the tick counter one higher when it returns
\* notcompleted and at zero when it returns completed or reset; nothing else
\* changes a tick counter, and it is zero when a TrackObject state is entered.
C16_TickCounter ==
  [][/\ (active \in TrackNames /\ Stepped) =>
          trk'[active].timer = IF last'.outcome = "notcompleted"
                                 THEN trk[active].timer + 1
                                 ELSE 0
     /\ \A n \in TrackNames :
          ~(active = n /\ Stepped) => trk'[n].timer = trk[n].timer
     /\ (active \notin TrackNames /\ active' \in TrackNames) =>
          trk'[active'].timer = 0]_vars

C16_Witness ==
  /\ last.state \in TrackNames
  /\ last.outcome = "notcompleted"
  /\ trk[last.state].timer = 200

\* C17: when RESET has handed back to START every TrackObject, ChangeDepth
\* and RotateYaw instance has its reset flag false and its counters zero, so
\* that none of them returns reset before a new reset = true message arrives.
C17_CleanRestart ==
  (last.state = "RESET" /\ last.outcome = "restart") =>
    /\ \A n \in TrackNames : ~trk[n].has_reset /\ trk[n].timer = 0
    /\ \A n \in DepthNames : ~cd[n].has_reset
    /\ \A n \in YawNames : ~ry[n].has_reset

\* C18: forward_thrust of a TrackObject instance is the last thrust command it
\* published: a step that publishes a thrust command caches that value, and a
\* step that changes the cached value publishes the new one (a step returning
\* completed or reset that zeroes it sends 0).
C18_CacheIsLastCommand ==
  [][(active \in TrackNames /\ Stepped) =>
       /\ pubs'.thrust # <<>> => pubs'.thrust = <<trk'[active].forward_thrust>>
       /\ trk'[active].forward_thrust # trk[active].forward_thrust =>
            pubs'.thrust = <<trk'[active].forward_thrust>>]_vars

\* C19: a reset = true message that the active TrackObject instance receives
\* in the middle of a step, after the reset check, is not lost: the step
\* returns reset or the flag is still set when the step ends.
C19_ResetNotLost ==
  [][(active \in TrackNames /\ pc = "checked" /\ trk[active].has_reset /\ pc' = "idle") =>
       \/ last'.outcome = "reset"
       \/ trk'[active].has_reset]_vars

\* C20: a ChangeDepth step with the reset flag clear and the depth outside the
\* tolerance band makes progress: it publishes one setpoint, and the setpoint
\* is strictly closer to the target depth than the depth reading of the step.
C20_TowardTarget ==
  [][(active \in DepthNames /\ ~HasReset(active) /\ Stepped) =>
       LET d == cd[active].depth_current
           t == targetDepth(active)
           dist(a) == IF a >= t THEN a - t ELSE t - a
       IN /\ pubs'.depth # <<>> => dist(pubs'.depth[1]) < dist(d)
          /\ dist(d) > DEPTH_VARIANCE => pubs'.depth # <<>>]_vars

====
